---- MODULE Spec2Model ----
(***************************************************************************)
(* pretty-simple-display: four derive macros (DebugPretty, DisplayPretty,  *)
(* DisplaySimple, DebugSimple), each emitting one implementation of        *)
(* std::fmt::Debug or std::fmt::Display whose fmt serializes the receiver  *)
(* with serde_json (pretty or compact) and writes the text, or an error    *)
(* message, to the formatter's sink.                                       *)
(*                                                                         *)
(* Text is modelled as a sequence of one-character strings, so that        *)
(* newlines, quotes and indentation are observable.                        *)
(***************************************************************************)
EXTENDS Integers, Sequences, FiniteSets, TLC

(***************************************************************************)
(* Bounds                                                                  *)
(***************************************************************************)
\* number of derive requests written in the compilation unit
MaxRequests == 2
\* number of formatting calls made on one receiver
MaxCalls == 3

(***************************************************************************)
(* Text helpers                                                            *)
(***************************************************************************)
NL == "\n"
QUOTE == "\""
BACKSLASH == "\\"
TAB == "\t"

RECURSIVE Flatten(_)
\* Concatenation of a sequence of texts.
Flatten(chunks) ==
    IF chunks = <<>> THEN <<>> ELSE Head(chunks) \o Flatten(Tail(chunks))

DigitChar == <<"0", "1", "2", "3", "4", "5", "6", "7", "8", "9">>

RECURSIVE Digits(_)
\* Decimal digits of a natural number (itoa).
Digits(n) ==
    IF n < 10 THEN <<DigitChar[n + 1]>>
    ELSE Digits(n \div 10) \o <<DigitChar[(n % 10) + 1]>>

\* serde_json integer formatting: optional minus sign, then the digits.
FormatInt(n) == IF n < 0 THEN <<"-">> \o Digits(0 - n) ELSE Digits(n)

\* serde_json string escaping of one character.
EscapeChar(c) ==
    CASE c = QUOTE -> <<BACKSLASH, QUOTE>>
      [] c = BACKSLASH -> <<BACKSLASH, BACKSLASH>>
      [] c = NL -> <<BACKSLASH, "n">>
      [] c = TAB -> <<BACKSLASH, "t">>
      [] OTHER -> <<c>>

RECURSIVE EscapeStr(_)
EscapeStr(s) ==
    IF s = <<>> THEN <<>> ELSE EscapeChar(Head(s)) \o EscapeStr(Tail(s))

\* A JSON string literal: the escaped characters between double quotes.
FormatStr(s) == <<QUOTE>> \o EscapeStr(s) \o <<QUOTE>>

RECURSIVE Indent(_)
\* PrettyFormatter indentation: two spaces per nesting level.
Indent(depth) ==
    IF depth = 0 THEN <<>> ELSE <<" ", " ">> \o Indent(depth - 1)

(***************************************************************************)
(* The external serializer (serde_json::to_string / to_string_pretty) on   *)
(* the serde data model.  A value is a tagged tuple:                       *)
(*   <<"null">>  <<"bool", b>>  <<"int", n>>  <<"str", chars>>             *)
(*   <<"seq", <<v1, ..., vn>>>>                                            *)
(*   <<"struct", <<<<key, v>>, ...>>>>                                     *)
(*   <<"unit_variant", tag>>   <<"struct_variant", tag, fields>>           *)
(*   <<"fail", msg>>   a field whose Serialize impl returns Err(custom(msg))*)
(* A result is [ok |-> TRUE, text |-> t] or [ok |-> FALSE, err |-> msg];   *)
(* on an error the partially built buffer is dropped.                      *)
(***************************************************************************)
SerOk(t) == [ok |-> TRUE, text |-> t, err |-> <<>>]
SerErr(m) == [ok |-> FALSE, text |-> <<>>, err |-> m]

RECURSIVE Ser(_, _, _)
RECURSIVE SerItems(_, _, _, _, _)

\* Elements of an array or members of an object at nesting level depth:
\* items i..Len(items), each preceded by its separator.
SerItems(items, i, pretty, depth, isObj) ==
    IF i > Len(items) THEN SerOk(<<>>)
    ELSE LET val == IF isObj THEN items[i][2] ELSE items[i]
             r == Ser(val, pretty, depth)
         IN  IF ~r.ok THEN r
             ELSE LET rest == SerItems(items, i + 1, pretty, depth, isObj)
                      sep == IF pretty
                             THEN (IF i = 1 THEN <<NL>> ELSE <<",", NL>>)
                                  \o Indent(depth)
                             ELSE (IF i = 1 THEN <<>> ELSE <<",">>)
                      key == IF isObj
                             THEN FormatStr(items[i][1])
                                  \o (IF pretty THEN <<":", " ">> ELSE <<":">>)
                             ELSE <<>>
                  IN  IF ~rest.ok THEN rest
                      ELSE SerOk(sep \o key \o r.text \o rest.text)

\* An array or an object: opening bracket, items one level deeper, closing
\* bracket (on its own line in pretty mode unless the collection is empty).
SerColl(items, pretty, depth, isObj) ==
    LET open == IF isObj THEN <<"{">> ELSE <<"[">>
        close == IF isObj THEN <<"}">> ELSE <<"]">>
        body == SerItems(items, 1, pretty, depth + 1, isObj)
    IN  IF ~body.ok THEN body
        ELSE SerOk(open \o body.text
                   \o (IF pretty /\ Len(items) > 0
                       THEN <<NL>> \o Indent(depth) ELSE <<>>)
                   \o close)

Ser(v, pretty, depth) ==
    CASE v[1] = "null" -> SerOk(<<"n", "u", "l", "l">>)
      [] v[1] = "bool" -> SerOk(IF v[2] THEN <<"t", "r", "u", "e">>
                                ELSE <<"f", "a", "l", "s", "e">>)
      [] v[1] = "int" -> SerOk(FormatInt(v[2]))
      [] v[1] = "str" -> SerOk(FormatStr(v[2]))
      [] v[1] = "seq" -> SerColl(v[2], pretty, depth, FALSE)
      [] v[1] = "struct" -> SerColl(v[2], pretty, depth, TRUE)
      [] v[1] = "unit_variant" -> SerOk(FormatStr(v[2]))
      [] v[1] = "struct_variant" ->
            SerColl(<< <<v[2], <<"struct", v[3]>> >> >>, pretty, depth, TRUE)
      [] v[1] = "fail" -> SerErr(v[2])

to_string(v) == Ser(v, FALSE, 0)
to_string_pretty(v) == Ser(v, TRUE, 0)

(***************************************************************************)
(* The annotated types and the receiver values of the calls (the types and *)
(* values of tests/integration_tests.rs).                                  *)
(***************************************************************************)
TypeNames == {"NestedStruct", "TestEnum"}

\* NestedStruct { inner: InnerStruct { data }, values: vec![..] }, the string
\* holding a quote, a newline and a tab.
Nested ==
    <<"struct", << << <<"i", "n", "n", "e", "r">>,
                      <<"struct", << << <<"d", "a", "t", "a">>,
                                        <<"str", <<"a", QUOTE, "b", NL, "c", TAB, "d">>>> >> >> >> >>,
                   << <<"v", "a", "l", "u", "e", "s">>,
                      <<"seq", << <<"int", 1>>, <<"int", -2>>, <<"int", 13>> >> >> >> >> >>

\* A nested value with an absent optional and an empty sequence.
NestedEmpty ==
    <<"struct", << << <<"i", "n", "n", "e", "r">>, <<"null">> >>,
                   << <<"v", "a", "l", "u", "e", "s">>, <<"seq", <<>>>> >> >> >>

KeyMustBeAString ==
    <<"k", "e", "y", " ", "m", "u", "s", "t", " ", "b", "e", " ", "a", " ",
      "s", "t", "r", "i", "n", "g">>

\* A nested value one of whose fields the serializer refuses, after it has
\* already produced the text of the enclosing objects.
NestedFailing ==
    <<"struct", << << <<"i", "n", "n", "e", "r">>,
                      <<"struct", << << <<"d", "a", "t", "a">>,
                                        <<"fail", KeyMustBeAString>> >> >> >> >>,
                   << <<"v", "a", "l", "u", "e", "s">>,
                      <<"seq", << <<"int", 1>> >> >> >> >> >>

Variant1Tag == <<"V", "a", "r", "i", "a", "n", "t", "1">>
Variant2Tag == <<"V", "a", "r", "i", "a", "n", "t", "2">>

\* TestEnum::Variant1
Variant1 == <<"unit_variant", Variant1Tag>>

\* TestEnum::Variant2 { value: "hello" }
Variant2 ==
    <<"struct_variant", Variant2Tag,
      << << <<"v", "a", "l", "u", "e">>,
            <<"str", <<"h", "e", "l", "l", "o">>>> >> >> >>

Values ==
    <<Nested, NestedEmpty, NestedFailing, Variant1, Variant2>>

TypeOf(i) ==
    CASE i \in {1, 2, 3} -> "NestedStruct"
      [] i \in {4, 5} -> "TestEnum"

(***************************************************************************)
(* State                                                                   *)
(***************************************************************************)
VARIABLES
    requests,   \* the derive requests written so far: <<[kind, name], ...>>
    emitted,    \* the implementation emitted for each request, in order
    build,      \* "editing", then "ok" or "rejected" by the host compiler
    recv,       \* index in Values of the receiver, 0 before it is created
    orig,       \* the receiver as it was created
    ncalls,     \* formatting calls made on the receiver
    last,       \* the last call: binding, trait, serializer, its result
    sink,       \* the writes the sink accepted during the last call
    res,        \* what the last call returned: "Ok" or "Err"
    rejected,   \* whether the sink rejected a write during the last call
    first       \* per trait, how many calls returned Ok and the first one's text

vars ==
    <<requests, emitted, build, recv, orig, ncalls, last, sink, res,
      rejected, first>>

(***************************************************************************)
(* The generator: what each derive macro emits for the type called name.   *)
(* An emitted implementation is the trait it implements, the type it is    *)
(* for and the serializer its fmt calls.                                   *)
(***************************************************************************)
\* Mutant: the debug-pretty macro emits an implementation of Display.
derive_debug_pretty_display(name) ==
    [trait |-> "Display", name |-> name, ser |-> "to_string_pretty"]

derive_debug_pretty(name) ==
    [trait |-> "Debug", name |-> name, ser |-> "to_string_pretty"]

\* Mutant: the display-pretty macro calls the compact serializer.
derive_display_pretty_compact(name) ==
    [trait |-> "Display", name |-> name, ser |-> "to_string"]

derive_display_pretty(name) ==
    [trait |-> "Display", name |-> name, ser |-> "to_string_pretty"]

\* Mutant: the display-simple macro calls the pretty serializer.
derive_display_simple_pretty(name) ==
    [trait |-> "Display", name |-> name, ser |-> "to_string_pretty"]

derive_display_simple(name) ==
    [trait |-> "Display", name |-> name, ser |-> "to_string"]

\* Mutant: the debug-simple macro looks at what was already emitted for the
\* type and follows the serializer of the earlier implementation.
derive_debug_simple_context(name) ==
    [trait |-> "Debug", name |-> name,
     ser |-> IF \E i \in 1 .. Len(emitted) : emitted[i].name = name
             THEN "to_string_pretty" ELSE "to_string"]

\* Mutant: the debug-simple macro calls the pretty serializer.
derive_debug_simple_pretty(name) ==
    [trait |-> "Debug", name |-> name, ser |-> "to_string_pretty"]

derive_debug_simple(name) ==
    [trait |-> "Debug", name |-> name, ser |-> "to_string"]

(***************************************************************************)
(* The emitted fmt and the sink it writes to.                              *)
(***************************************************************************)
ErrPrefix ==
    <<"E", "r", "r", "o", "r", " ", "s", "e", "r", "i", "a", "l", "i", "z",
      "i", "n", "g", " ", "t", "o", " ", "J", "S", "O", "N", ":", " ">>

\* A sink that accepts every write (a String, as under format!).
StringSink == -1

\* The most writes one call of fmt makes: the literal piece and the argument
\* of the Err arm.
MaxWrites == 2

\* write!(f, ..) hands the sink one write_str per non-empty literal piece
\* and per argument, in order, and stops with Err at the first write the
\* sink rejects.  A sink of capacity cap accepts cap writes.
WriteFmt(chunks, cap) ==
    LET n == Len(chunks)
        k == IF cap = StringSink \/ cap >= n THEN n ELSE cap
    IN  [accepted |-> SubSeq(chunks, 1, k),
         res |-> IF k = n THEN "Ok" ELSE "Err",
         rejected |-> k < n]

\* Mutant: writeln! instead of write!, a newline follows the text.
OkArm_writeln(json, cap) == WriteFmt(<<json, <<NL>>>>, cap)

\* Mutant: "{:?}" instead of "{}", the text is quoted and escaped again.
OkArm_debug(json, cap) == WriteFmt(<<FormatStr(json)>>, cap)

\* Ok(json) => write!(f, "{}", json)
OkArm(json, cap) == WriteFmt(<<json>>, cap)

\* Mutant: the error arm writes the description without the prefix.
ErrArm_noprefix(e, cap) == WriteFmt(<<e>>, cap)

\* Mutant: the error arm writes the prefix and forgets the description.
ErrArm_nodetail(e, cap) == WriteFmt(<<ErrPrefix>>, cap)

\* Mutant: Err(_) => Err(std::fmt::Error), the failure is handed on.
ErrArm_propagate(e, cap) ==
    [accepted |-> <<>>, res |-> "Err", rejected |-> FALSE]

\* Err(e) => write!(f, "Error serializing to JSON: {}", e)
ErrArm(e, cap) == WriteFmt(<<ErrPrefix, e>>, cap)

\* Mutant: the pretty text is computed on the first call only; later calls
\* fall back to the compact serializer.
CallSer_stateful(ser, v) ==
    IF ser = "to_string_pretty" /\ ncalls = 0
    THEN to_string_pretty(v) ELSE to_string(v)

\* The serializer call of the emitted fmt.
CallSer(ser, v) ==
    IF ser = "to_string_pretty" THEN to_string_pretty(v) ELSE to_string(v)

\* fmt(&self, f): match on the serializer's result.
EmittedFmt(impl, v, cap) ==
    LET r == CallSer(impl.ser, v)
    IN  IF r.ok THEN OkArm(r.text, cap) ELSE ErrArm(r.err, cap)

(***************************************************************************)
(* Initial state and actions                                               *)
(***************************************************************************)
Traits == {"Debug", "Display"}
\* The sinks a call may be given: one that accepts everything, or one that
\* rejects the first or the second write.
SinkCaps == {StringSink} \cup (0 .. MaxWrites - 1)

NoText == [n |-> 0, text |-> <<>>]

Init ==
    /\ requests = <<>>
    /\ emitted = <<>>
    /\ build = "editing"
    /\ recv = 0
    /\ orig = 0
    /\ ncalls = 0
    /\ last = [kind |-> "", trait |-> "", ser |-> "", serok |-> TRUE,
               cap |-> StringSink]
    /\ sink = <<>>
    /\ res = "Ok"
    /\ rejected = FALSE
    /\ first = [t \in Traits |-> NoText]

\* One #[derive(..)] on the type called name: the macro runs and its output
\* joins the compilation unit.
Derive(kind, impl) ==
    /\ build = "editing"
    /\ Len(requests) < MaxRequests
    /\ requests' = Append(requests, [kind |-> kind, name |-> impl.name])
    /\ emitted' = Append(emitted, impl)
    /\ UNCHANGED <<build, recv, orig, ncalls, last, sink, res, rejected, first>>

DeriveDebugPretty ==
    \E name \in TypeNames : Derive("DebugPretty", derive_debug_pretty(name))

DeriveDisplayPretty ==
    \E name \in TypeNames : Derive("DisplayPretty", derive_display_pretty(name))

DeriveDisplaySimple ==
    \E name \in TypeNames : Derive("DisplaySimple", derive_display_simple(name))

DeriveDebugSimple ==
    \E name \in TypeNames : Derive("DebugSimple", derive_debug_simple(name))

\* Two emitted implementations of one trait for one type conflict.
Conflict(impls) ==
    \E i, j \in 1 .. Len(impls) :
        /\ i < j
        /\ impls[i].trait = impls[j].trait
        /\ impls[i].name = impls[j].name

\* The host compiles the emitted code.
Compile ==
    /\ build = "editing"
    /\ build' = IF Conflict(emitted) THEN "rejected" ELSE "ok"
    /\ UNCHANGED <<requests, emitted, recv, orig, ncalls, last, sink, res,
                   rejected, first>>

\* The program creates the value it is going to format.
Bind ==
    /\ build = "ok"
    /\ recv = 0
    /\ \E i \in 1 .. Len(Values) :
        /\ recv' = i
        /\ orig' = i
    /\ UNCHANGED <<requests, emitted, build, ncalls, last, sink, res,
                   rejected, first>>

\* A formatting call through trait t into a fresh sink of capacity cap: the
\* one implementation of t for the receiver's type runs; &self leaves the
\* receiver as it is.
Format(t, cap) ==
    /\ build = "ok"
    /\ recv # 0
    /\ ncalls < MaxCalls
    /\ \E i \in 1 .. Len(emitted) :
        /\ emitted[i].trait = t
        /\ emitted[i].name = TypeOf(recv)
        /\ LET w == EmittedFmt(emitted[i], Values[recv], cap)
           IN  /\ sink' = w.accepted
               /\ res' = w.res
               /\ rejected' = w.rejected
               /\ last' = [kind |-> requests[i].kind,
                           trait |-> t,
                           ser |-> emitted[i].ser,
                           serok |-> CallSer(emitted[i].ser, Values[recv]).ok,
                           cap |-> cap]
               /\ first' = IF w.res = "Ok"
                           THEN [first EXCEPT
                                   ![t] = [n |-> @.n + 1,
                                           text |-> IF @.n = 0
                                                    THEN Flatten(w.accepted)
                                                    ELSE @.text]]
                           ELSE first
    /\ ncalls' = ncalls + 1
    /\ UNCHANGED <<requests, emitted, build, recv, orig>>

\* format!("{:?}", value)
FormatDebug == \E cap \in SinkCaps : Format("Debug", cap)

\* format!("{}", value)
FormatDisplay == \E cap \in SinkCaps : Format("Display", cap)

Next ==
    \/ DeriveDebugPretty
    \/ DeriveDisplayPretty
    \/ DeriveDisplaySimple
    \/ DeriveDebugSimple
    \/ Compile
    \/ Bind
    \/ FormatDebug
    \/ FormatDisplay

Spec == Init /\ [][Next]_vars

(***************************************************************************)
(* Vocabulary of the properties                                            *)
(***************************************************************************)
Called == ncalls > 0

\* What the sink holds after the last call.
Out == Flatten(sink)

PrettyKinds == {"DebugPretty", "DisplayPretty"}
SimpleKinds == {"DebugSimple", "DisplaySimple"}

\* The documented table: the convention and the serializer of each binding.
ConventionOf(kind) ==
    IF kind \in {"DebugPretty", "DebugSimple"} THEN "Debug" ELSE "Display"

SerializerOf(kind) ==
    IF kind \in PrettyKinds THEN "to_string_pretty" ELSE "to_string"

\* The serializer's result for the receiver in the mode of a binding.
Serialized(kind) ==
    IF kind \in PrettyKinds
    THEN to_string_pretty(Values[recv]) ELSE to_string(Values[recv])

\* The complete text a call through a binding is to produce.
FullText(kind) ==
    IF Serialized(kind).ok THEN Serialized(kind).text
    ELSE ErrPrefix \o Serialized(kind).err

HasNewline(t) == \E p \in 1 .. Len(t) : t[p] = NL

\* sub occurs in t from position p on.
OccursAt(t, sub, p) ==
    /\ p >= 1
    /\ p + Len(sub) - 1 <= Len(t)
    /\ \A q \in 1 .. Len(sub) : t[p + q - 1] = sub[q]

RECURSIVE StripWs(_, _, _)
\* t without the spaces and newlines that stand outside string literals.
StripWs(t, inStr, esc) ==
    IF t = <<>> THEN <<>>
    ELSE LET c == Head(t)
         IN  IF inStr
             THEN <<c>> \o StripWs(Tail(t),
                                   esc \/ c # QUOTE,
                                   ~esc /\ c = BACKSLASH)
             ELSE IF c \in {" ", NL} THEN StripWs(Tail(t), FALSE, FALSE)
             ELSE <<c>> \o StripWs(Tail(t), c = QUOTE, FALSE)

\* The members of the receiver's JSON object, <<>> when it is not an object.
Members(v) ==
    CASE v[1] = "struct" -> v[2]
      [] v[1] = "struct_variant" -> << <<v[2], <<"struct", v[3]>> >> >>
      [] OTHER -> <<>>

HasRequest(kind, name) ==
    \E i \in 1 .. Len(requests) :
        requests[i].kind = kind /\ requests[i].name = name

(***************************************************************************)
(* Claims                                                                  *)
(***************************************************************************)

\* C1: every emitted implementation has the convention and the serializer
\* the table gives its binding, whatever the annotated type, and every call
\* runs the serializer of its binding's mode and never the other one.
C1_BindingMapping ==
    /\ \A i \in 1 .. Len(emitted) :
        /\ emitted[i].trait = ConventionOf(requests[i].kind)
        /\ emitted[i].ser = SerializerOf(requests[i].kind)
    /\ Called =>
        /\ last.trait = ConventionOf(last.kind)
        /\ last.ser = SerializerOf(last.kind)
        /\ ~rejected => Out = FullText(last.kind)

C1_Witness ==
    /\ Called
    /\ last.kind = "DisplaySimple"
    /\ ~rejected
    /\ \E i \in 1 .. Len(requests) : requests[i].kind = "DebugPretty"

\* C2: when serialization succeeds and the sink takes the write, the sink
\* holds exactly the serializer's text for the binding's mode, written as
\* one piece with nothing before or after it.
C2_VerbatimSuccess ==
    (Called /\ last.serok /\ ~rejected) =>
        /\ sink = <<Serialized(last.kind).text>>
        /\ Out = Serialized(last.kind).text

C2_Witness ==
    /\ Called
    /\ last.serok
    /\ ~rejected
    /\ last.kind = "DebugSimple"
    /\ recv = 1

\* C3: when serialization fails with error e and the sink takes the writes,
\* the sink holds the literal prefix immediately followed by the description
\* of e and nothing else; no part of the serializer's output is in it.
C3_ErrorText ==
    (Called /\ ~last.serok /\ ~rejected) =>
        /\ Out = ErrPrefix \o Serialized(last.kind).err
        /\ Out = ErrPrefix \o KeyMustBeAString
        /\ \A p \in 1 .. Len(Out) : Out[p] \notin {"{", "}", QUOTE}

C3_Witness ==
    /\ Called
    /\ ~last.serok
    /\ ~rejected
    /\ recv = 3

\* C4 as stated: no formatting call ever returns a failure.
C4_NeverFails == Called => res = "Ok"

\* C4 amended: a call returns a failure exactly when the sink rejected one
\* of its writes; into a sink that accepts every write it returns Ok whether
\* serialization succeeded or failed.
C4_FailsOnlyWithSink ==
    Called =>
        /\ res = "Err" <=> rejected
        /\ last.cap = StringSink => res = "Ok"
        /\ res = "Err" =>
            last.cap # StringSink /\ last.cap < (IF last.serok THEN 1 ELSE 2)

C4_Witness ==
    /\ Called
    /\ ~last.serok
    /\ last.cap = StringSink
    /\ res = "Ok"

C6_SimpleNoNewline ==
    (Called /\ last.kind \in SimpleKinds /\ last.serok) => ~HasNewline(Out)

C6_Witness ==
    /\ Called
    /\ last.kind = "DisplaySimple"
    /\ last.serok
    /\ ~rejected
    /\ recv = 1
    /\ Len(Out) > 0

\* C7: through a pretty-mode binding, a value whose JSON is a non-empty
\* object is written as "{" and a newline, then each first-level key on a
\* line of its own, after exactly two spaces and before ": " and its value.
C7_PrettyLayout ==
    (Called /\ last.kind \in PrettyKinds /\ last.serok /\ ~rejected
       /\ Len(Members(Values[recv])) > 0) =>
        LET ms == Members(Values[recv])
            \* the lines that open with exactly two spaces and a key
            keyLines == {p \in 1 .. Len(Out) :
                            OccursAt(Out, <<NL, " ", " ", QUOTE>>, p)}
        IN  /\ OccursAt(Out, <<"{", NL>>, 1)
            /\ Cardinality(keyLines) = Len(ms)
            /\ \A j \in 1 .. Len(ms) :
                \E p \in keyLines :
                    /\ OccursAt(Out,
                                <<NL, " ", " ", QUOTE>> \o ms[j][1]
                                    \o <<QUOTE, ":", " ">>
                                    \o Ser(ms[j][2], TRUE, 1).text,
                                p)
                    /\ LET e == p + 7 + Len(ms[j][1])
                                  + Len(Ser(ms[j][2], TRUE, 1).text)
                       IN  \/ OccursAt(Out, <<",", NL>>, e)
                           \/ (OccursAt(Out, <<NL, "}">>, e) /\ e + 1 = Len(Out))

C7_Witness ==
    /\ Called
    /\ last.kind = "DisplayPretty"
    /\ last.serok
    /\ ~rejected
    /\ recv = 1

SameConventionTwice ==
    \E i, j \in 1 .. Len(requests) :
        /\ i < j
        /\ requests[i].name = requests[j].name
        /\ ConventionOf(requests[i].kind) = ConventionOf(requests[j].kind)

\* C9 as stated: whatever bindings are requested, they never conflict.
C9_NeverConflict == build # "rejected"

\* C9 amended: every request yields exactly one implementation, the one the
\* binding yields when requested alone; the host rejects the emitted code
\* exactly when two requests bind the same convention to the same type, and
\* bindings of different conventions combine freely.
C9_IndependentRequests ==
    /\ Len(emitted) = Len(requests)
    /\ \A i \in 1 .. Len(requests) :
        emitted[i] = [trait |-> ConventionOf(requests[i].kind),
                      name |-> requests[i].name,
                      ser |-> SerializerOf(requests[i].kind)]
    /\ build = "rejected" => SameConventionTwice
    /\ build = "ok" => ~SameConventionTwice

C9_Witness ==
    /\ build = "ok"
    /\ Len(requests) = 2
    /\ requests[1].name = requests[2].name
    /\ requests[2].kind = "DebugSimple"

\* C10: a variant without data is written, by every binding, as its tag
\* between double quotes and nothing else; a variant with named fields is
\* written as an object whose only key is the tag.
C10_VariantEncoding ==
    (Called /\ ~rejected) =>
        LET v == Values[recv]
        IN  /\ v[1] = "unit_variant" =>
                /\ Out = <<QUOTE>> \o v[2] \o <<QUOTE>>
                /\ ~HasNewline(Out)
                /\ \A p \in 1 .. Len(Out) : Out[p] \notin {"{", " "}
            /\ v[1] = "struct_variant" =>
                StripWs(Out, FALSE, FALSE)
                    = <<"{", QUOTE>> \o v[2] \o <<QUOTE, ":">>
                        \o to_string(<<"struct", v[3]>>).text \o <<"}">>

C10_Witness ==
    /\ Called
    /\ ~rejected
    /\ recv = 4
    /\ last.kind = "DisplayPretty"

====
